---- MODULE Spec2Model ----
(***************************************************************************)
(* Model of the tracking backend: the tracking-session lifecycle           *)
(* (app/api/v1/tracker, app/models/campaign_tracking_session.py) and the   *)
(* event-ingestion pipeline of track_campaign (duplicate check, pricing,   *)
(* TrackingEvent write, campaign budget debit, publisher earnings bucket,  *)
(* audit log).                                                             *)
(*                                                                         *)
(* Conventions                                                             *)
(*  - Time is counted in minutes since 00:00 of the first day of the       *)
(*    current month.  Two calls that read the same value of `now` fall in  *)
(*    the same clock reading of the program.                               *)
(*  - Money is counted in micro-dollars (1 USD = 1000000), so one cent,    *)
(*    the precision of the "%.2f" budget strings, is 10000.                *)
(*  - Every database statement the code awaits is one atomic step; the     *)
(*    code between two awaits runs without interleaving (asyncio).         *)
(*  - Each request owns its AsyncSession (get_async_session), created with *)
(*    expire_on_commit=False: an ORM object keeps the column values it was *)
(*    loaded with, and commit() writes the attributes the request changed. *)
(*  - Settings attributes read by the tracker (DEBUG, PLATFORM_SHARE,      *)
(*    PUBLISHER_SHARE) and the pricing table are deployment configuration. *)
(***************************************************************************)
EXTENDS Integers, Sequences, FiniteSets, TLC

(***************************************************************************)
(* Bounds of the model.                                                    *)
(***************************************************************************)
NReq == 2          \* track requests that may run (concurrently)
NCalls == 2        \* withdrawal calls that may run (concurrently)
MaxEvents == 3     \* events counted in the earnings table while withdrawals run
MaxSessions == 2   \* session rows init_tracking_session may create
MaxQuotes == 2     \* calculate_revenue calls made with the same arguments
MaxBody == 3       \* session calls made by one user of a transactional session

(***************************************************************************)
(* Program constants.                                                      *)
(***************************************************************************)
RATE_LIMIT_MINUTES == 60
TRACKING_SESSION_EXPIRY == 60
DB_EXPIRY_BUFFER == 1
BLACKLIST_MAX_AGE == 60
MIN_WITHDRAWAL_DAYS == 7
MINIMUM_PAYOUT == 65000
MinutesPerDay == 1440
MinutesPerMonth == 43200
Cent == 10000
MultiplierScale == 10
DefaultMultiplier == 10
PLATFORM_SHARE == 35
PUBLISHER_SHARE == 65

StartTime == 20760     \* the 15th of the month, 10:00

\* Clock readings the model distinguishes: the start and the instants
\* around the one-hour cooldown, the token expiry and the row expiry.
TimeOffsets == {0, 60, 61}
TimePoints == {StartTime + d : d \in TimeOffsets}
SessionTimeOffsets == {0, 59, 60, 61}
SessionTimePoints == {StartTime + d : d \in SessionTimeOffsets}

IPs == {"1.2.3.4", "5.6.7.8"}
Publishers == {"pub1", "pub2"}
EventTypes == {"impression", "click", "view"}
NoCookie == [kind |-> "none"]
NoUA == ""

(***************************************************************************)
(* User agents, by what user_agents.parse reports about them.              *)
(***************************************************************************)
UAInfo ==
  [ chrome_pc     |-> [is_mobile |-> FALSE, is_touch_capable |-> FALSE,
                       is_tablet |-> FALSE, is_pc |-> TRUE,
                       is_bot |-> FALSE, is_email_client |-> FALSE],
    safari_iphone |-> [is_mobile |-> TRUE, is_touch_capable |-> TRUE,
                       is_tablet |-> FALSE, is_pc |-> FALSE,
                       is_bot |-> FALSE, is_email_client |-> FALSE],
    abjad_client  |-> [is_mobile |-> FALSE, is_touch_capable |-> FALSE,
                       is_tablet |-> FALSE, is_pc |-> FALSE,
                       is_bot |-> FALSE, is_email_client |-> FALSE],
    googlebot     |-> [is_mobile |-> FALSE, is_touch_capable |-> FALSE,
                       is_tablet |-> FALSE, is_pc |-> FALSE,
                       is_bot |-> TRUE, is_email_client |-> FALSE] ]
UserAgents == DOMAIN UAInfo
\* the User-Agent values clients send in the specifications
ClientUserAgents == {"chrome_pc", "safari_iphone", "googlebot"}

\* app/utils/device_ua.py: "error" stands for ValueError("Unknown device type")
get_device_type(ua) ==
  IF UAInfo[ua].is_mobile \/ UAInfo[ua].is_touch_capable THEN "mobile"
  ELSE IF UAInfo[ua].is_tablet THEN "tablet"
  ELSE IF UAInfo[ua].is_pc THEN "desktop"
  ELSE "error"

(***************************************************************************)
(* PricingManager (app/utils/pricing.py) over the pricing table.           *)
(***************************************************************************)
PricingRegions ==
  [ na    |-> [countries |-> {"US", "CA"},
               rates |-> [impression |-> 1000, click |-> 50000, view |-> 12000],
               currency |-> "USD"],
    other |-> [countries |-> {},
               rates |-> [impression |-> 500, click |-> 25000, view |-> 5000],
               currency |-> "USD"] ]
RateMultipliers == [mobile |-> 12, tablet |-> 11, desktop |-> 10]

\* str.upper() on the country codes the model uses
Upper(s) ==
  CASE s = "us" -> "US"
    [] s = "ca" -> "CA"
    [] s = "Unknown" -> "UNKNOWN"
    [] s = "zz" -> "ZZ"
    [] OTHER -> s

\* str.lower() on device type names
Lower(s) ==
  CASE s = "Mobile" -> "mobile"
    [] s = "DESKTOP" -> "desktop"
    [] OTHER -> s

\* get_region_for_country with the first region as the default
get_region_for_country_default_na(country_code) ==
  IF \E g \in DOMAIN PricingRegions : Upper(country_code) \in PricingRegions[g].countries
  THEN CHOOSE g \in DOMAIN PricingRegions : Upper(country_code) \in PricingRegions[g].countries
  ELSE "na"

get_region_for_country(country_code) ==
  IF \E g \in DOMAIN PricingRegions : Upper(country_code) \in PricingRegions[g].countries
  THEN CHOOSE g \in DOMAIN PricingRegions : Upper(country_code) \in PricingRegions[g].countries
  ELSE "other"

\* -1 stands for PricingError("Invalid interaction type")
get_base_rate(country_code, interaction_type) ==
  LET region_data == PricingRegions[get_region_for_country(country_code)]
  IN  IF interaction_type \in DOMAIN region_data.rates
      THEN region_data.rates[interaction_type]
      ELSE -1

get_device_multiplier(device_type) ==
  IF Lower(device_type) \in DOMAIN RateMultipliers
  THEN RateMultipliers[Lower(device_type)]
  ELSE DefaultMultiplier

\* calculate_revenue with final_rate left at the base rate
calculate_revenue_without_multiplier(country_code, interaction_type, device_type) ==
  LET base_rate == get_base_rate(country_code, interaction_type)
      device_multiplier == get_device_multiplier(device_type)
  IN  IF base_rate < 0
      THEN [ok |-> FALSE, base_rate |-> 0, device_multiplier |-> 0,
            final_rate |-> 0, currency |-> ""]
      ELSE [ok |-> TRUE, base_rate |-> base_rate,
            device_multiplier |-> device_multiplier,
            final_rate |-> base_rate,
            currency |-> PricingRegions[get_region_for_country(country_code)].currency]

\* ok = FALSE stands for HTTPException(400, "Error calculating revenue")
calculate_revenue(country_code, interaction_type, device_type) ==
  LET base_rate == get_base_rate(country_code, interaction_type)
      device_multiplier == get_device_multiplier(device_type)
  IN  IF base_rate < 0
      THEN [ok |-> FALSE, base_rate |-> 0, device_multiplier |-> 0,
            final_rate |-> 0, currency |-> ""]
      ELSE [ok |-> TRUE, base_rate |-> base_rate,
            device_multiplier |-> device_multiplier,
            final_rate |-> (base_rate * device_multiplier) \div MultiplierScale,
            currency |-> PricingRegions[get_region_for_country(country_code)].currency]

\* TrackingEvent.calculate_earnings
calculate_earnings(event_type, country_code, device_type) ==
  LET revenue_details == calculate_revenue(country_code, event_type, device_type)
      earnings == revenue_details.final_rate
  IN  [ok |-> revenue_details.ok,
       earnings |-> earnings,
       platform_earnings |-> (earnings * PLATFORM_SHARE) \div 100,
       publisher_earnings |-> (earnings * PUBLISHER_SHARE) \div 100,
       currency |-> revenue_details.currency]

(***************************************************************************)
(* IPInfoGrabber.get_ip_info: the country the geo providers report for an  *)
(* address (app/utils/ip_info_grabber.py).                                 *)
(***************************************************************************)
GeoCountry(ip) == IF ip = "1.2.3.4" THEN "US" ELSE "ZZ"

(***************************************************************************)
(* Tracking JWT (create_tracking_jwt / decode_tracking_jwt).  A token is   *)
(* its claims plus whether its signature verifies under settings.SECRET.   *)
(* Two tokens with equal claims are the same string.                       *)
(***************************************************************************)
create_tracking_jwt(ip, ua, pub, t) ==
  [kind |-> "jwt", ip |-> ip, ua |-> ua, pub_id |-> pub,
   exp |-> t + TRACKING_SESSION_EXPIRY, sig |-> "valid"]

\* a cookie whose payload was edited without the secret
Tamper(token, ip) == [token EXCEPT !.ip = ip, !.sig = "forged"]

\* jwt.decode checks the signature first, then exp (expired when exp <= now).
\* An expired token is answered with 401.  Any other decode error reaches
\* `except jwt.JWTError`; the jwt module that offers encode/decode/
\* ExpiredSignatureError has no attribute JWTError, so evaluating that
\* clause raises AttributeError and the request ends as a server error.
decode_tracking_jwt(token, t) ==
  IF token.sig # "valid" THEN [ok |-> FALSE, status |-> 500]
  ELSE IF token.exp <= t THEN [ok |-> FALSE, status |-> 401]
  ELSE [ok |-> TRUE, status |-> 0]

\* the query of get_valid_session without its is_blacklisted condition
ValidRows_ignoring_blacklist(rows, jwt_token, ip, ua, pub, t) ==
  { i \in DOMAIN rows :
      /\ rows[i].jwt_token = jwt_token
      /\ rows[i].viewer_ip = ip
      /\ rows[i].viewer_user_agent = ua
      /\ rows[i].expires_at > t
      /\ rows[i].publisher_id = pub }

\* The rows selected by the query of CampaignTrackingSession.get_valid_session
ValidRows(rows, jwt_token, ip, ua, pub, t) ==
  { i \in DOMAIN rows :
      /\ rows[i].jwt_token = jwt_token
      /\ rows[i].viewer_ip = ip
      /\ rows[i].viewer_user_agent = ua
      /\ rows[i].expires_at > t
      /\ rows[i].is_blacklisted = FALSE
      /\ rows[i].publisher_id = pub }

\* The rows selected by the diagnostic query (same token, nothing else)
TokenRows(rows, jwt_token) == { i \in DOMAIN rows : rows[i].jwt_token = jwt_token }

\* Both queries end in scalar_one_or_none(): one row, None, or
\* MultipleResultsFound when more than one row is selected.  The
\* diagnostic query runs only when the first one selected nothing.
get_valid_session(rows, jwt_token, ip, ua, pub, t) ==
  LET m == ValidRows(rows, jwt_token, ip, ua, pub, t)
  IN  IF Cardinality(m) > 1 THEN [kind |-> "multiple", sid |-> 0]
      ELSE IF Cardinality(m) = 1 THEN [kind |-> "row", sid |-> CHOOSE i \in m : TRUE]
      ELSE IF Cardinality(TokenRows(rows, jwt_token)) > 1
           THEN [kind |-> "multiple", sid |-> 0]
           ELSE [kind |-> "none", sid |-> 0]

\* get_tracking_session: status 200 with the row id, or the error status
get_tracking_session(rows, cookie, ip, ua, pub, t) ==
  IF cookie = NoCookie THEN [status |-> 401, sid |-> 0]
  ELSE LET session_data == decode_tracking_jwt(cookie, t)
       IN  IF ~session_data.ok THEN [status |-> session_data.status, sid |-> 0]
           ELSE LET tracking_session == get_valid_session(rows, cookie, ip, ua, pub, t)
                IN  CASE tracking_session.kind = "row" ->
                           [status |-> 200, sid |-> tracking_session.sid]
                      [] tracking_session.kind = "none" ->
                           [status |-> 401, sid |-> 0]
                      [] OTHER -> [status |-> 500, sid |-> 0]

\* CampaignTrackingSession.create_session, as called by init_tracking_session
create_session(rows, jwt_token, ip, ua, pub, t, expires_at) ==
  Append(rows, [id |-> Len(rows) + 1, jwt_token |-> jwt_token,
                viewer_ip |-> ip, viewer_user_agent |-> ua,
                publisher_id |-> pub, created_at |-> t,
                expires_at |-> expires_at,
                is_blacklisted |-> FALSE, blacklisted_at |-> -1])

(***************************************************************************)
(* Campaign rows.  Budgets are the "<amount:.2f>_<currency>" strings of    *)
(* the columns campaign_budget / campaign_budget_used, so every stored     *)
(* amount is a whole number of cents.                                      *)
(***************************************************************************)
Campaigns ==
  [ camp1 |-> [campaign_status |-> "active", campaign_budget |-> 100000,
               advertisement_id |-> "ad1"],
    camp2 |-> [campaign_status |-> "paused", campaign_budget |-> 100000,
               advertisement_id |-> "ad1"] ]
InitialUsed == [camp1 |-> 50000, camp2 |-> 0]
CampaignIds == DOMAIN Campaigns \cup {"camp0"}     \* camp0 has no row

\* f"{x:.2f}" followed by float(...): x rounded to a whole number of cents
Fmt2(x) ==
  LET q == x \div Cent
      r == x % Cent
  IN  IF 2 * r < Cent THEN q * Cent
      ELSE IF 2 * r > Cent THEN (q + 1) * Cent
      ELSE IF q % 2 = 0 THEN q * Cent ELSE (q + 1) * Cent

\* increase_budget_used without the "budget would be exceeded" test
increase_budget_used_unchecked(current_budget, current_used, amount) ==
  IF amount <= 0 THEN [ok |-> FALSE, err |-> "InvalidAmount", used |-> current_used]
  ELSE [ok |-> TRUE, err |-> "", used |-> Fmt2(current_used + amount)]

\* Campaign.increase_budget_used on an ORM object loaded with
\* (current_budget, current_used): the error raised, or the value written
\* to campaign_budget_used
increase_budget_used(current_budget, current_used, amount) ==
  IF amount <= 0 THEN [ok |-> FALSE, err |-> "InvalidAmount", used |-> current_used]
  ELSE IF current_used + amount > current_budget
       THEN [ok |-> FALSE, err |-> "BudgetExceeded", used |-> current_used]
       ELSE [ok |-> TRUE, err |-> "", used |-> Fmt2(current_used + amount)]

\* check_duplicate_event without the event_type condition
check_duplicate_event_any_type(evs, campaign_id, viewer_ip, event_type, time_window_checking_limit) ==
  \E e \in evs :
     /\ e.campaign_id = campaign_id
     /\ e.viewer_ip = viewer_ip
     /\ e.last_view_timestamp >= time_window_checking_limit

\* check_duplicate_event with a strict comparison at the window start
check_duplicate_event_strict(evs, campaign_id, viewer_ip, event_type, time_window_checking_limit) ==
  \E e \in evs :
     /\ e.campaign_id = campaign_id
     /\ e.viewer_ip = viewer_ip
     /\ e.event_type = event_type
     /\ e.last_view_timestamp > time_window_checking_limit

\* TrackingEvent.check_duplicate_event
check_duplicate_event(evs, campaign_id, viewer_ip, event_type, time_window_checking_limit) ==
  \E e \in evs :
     /\ e.campaign_id = campaign_id
     /\ e.viewer_ip = viewer_ip
     /\ e.event_type = event_type
     /\ e.last_view_timestamp >= time_window_checking_limit

\* datetime.replace(day=1): the day becomes 1, the time of day is kept
ReplaceDay1(t) == (t \div MinutesPerMonth) * MinutesPerMonth + (t % MinutesPerDay)

\* PublisherEarnings.get_monthly_earnings: the ids of the matching rows
get_monthly_earnings(rows, publisher_id, month) ==
  { b \in rows : b.publisher_id = publisher_id /\ b.month = ReplaceDay1(month) }

\* Logger.log forwards these keyword arguments to SystemLog.create_log,
\* which declares these parameters; a keyword that is not a parameter
\* raises TypeError before any row is added.
LoggerLogKeywords ==
  {"session", "level", "category", "message", "event_metadata", "error",
   "request_id", "user_id", "ip_address", "endpoint"}
CreateLogParameters ==
  {"session", "level", "category", "message", "metadata", "error",
   "request_id", "user_id", "ip_address", "endpoint"}
LogCallAccepted == LoggerLogKeywords \subseteq CreateLogParameters

\* TrackingEventResponse() is built without arguments; the schema declares
\* these required fields, so construction raises ValidationError.
ResponseRequiredFields ==
  {"campaign_id", "event_type", "viewer_user_agent", "viewer_session_id",
   "viewer_screen_resolution", "viewer_language", "id", "event_timestamp",
   "viewer_country", "viewer_device", "viewer_os", "viewer_browser",
   "viewer_timezone"}
ResponseBuilt == ResponseRequiredFields = {}

(***************************************************************************)
(* State.                                                                  *)
(***************************************************************************)
VARIABLES
  now,          \* the clock
  sessions,     \* table campaign_tracking_sessions (sequence of rows)
  events,       \* table tracking_events (committed rows)
  budget_used,  \* column campaign_budget_used of each campaign row
  earnings,     \* table publisher_earnings (committed rows)
  logs,         \* table system_logs (committed rows)
  req,          \* the track requests: position and locals of each
  probe,        \* the last direct call observed (session check, pricing)
  calls         \* the withdrawal calls: position and locals of each

vars == <<now, sessions, events, budget_used, earnings, logs, req, probe, calls>>

Reqs == 1..NReq
AllWrites == {"event", "debit", "earnings"}
NoProbe == [op |-> "", status |-> 0, sid |-> 0]
Calls == 1..NCalls
IdleCall ==
  [pc |-> "idle", op |-> "", publisher_id |-> "", month |-> -1, id |-> 0,
   status |-> "", stamp |-> -1, notes |-> "", ok |-> FALSE, err |-> ""]
NoBucket == [id |-> 0]

IdleReq ==
  [pc |-> "idle", status |-> 0, err |-> "", sid |-> 0, campaign |-> "",
   etype |-> "", snap_used |-> -1, snap_bucket |-> NoBucket, made |-> {}]

\* cookies a client can present: none, a token it was issued, or an issued
\* token edited without the secret
CookieInputs(rows) ==
  {NoCookie} \cup { rows[i].jwt_token : i \in DOMAIN rows }
             \cup { Tamper(rows[i].jwt_token, ip) : i \in DOMAIN rows, ip \in IPs }

PublisherRows == Publishers      \* table publishers

SessionOf(r) == sessions[req[r].sid]

\* the request leaves the try block with exception `e`
Raise(r, e) == [req[r] EXCEPT !.pc = "handler", !.err = e]

\* What get_tracking_session can answer in the current state, over the
\* cookies, addresses, User-Agent headers and path publisher ids of clients
AuthOutcomes ==
  { get_tracking_session(sessions, cookie, ip, ua, pub, now) :
      cookie \in CookieInputs(sessions), ip \in IPs,
      ua \in ClientUserAgents \cup {NoUA}, pub \in Publishers }

(***************************************************************************)
(* track_campaign, one action per awaited call.                            *)
(***************************************************************************)

\* The request arrives and its dependency get_tracking_session_with_publisher
\* runs.  A request without a valid session ends here with the error status.
Start(r) ==
  /\ req[r].pc = "idle"
  /\ IF r = 1 THEN TRUE ELSE req[r - 1].pc # "idle"
  /\ \E a \in AuthOutcomes, campaign \in CampaignIds, etype \in EventTypes :
           req' = [req EXCEPT ![r] =
                     IF a.status = 200
                     THEN [IdleReq EXCEPT !.pc = "dup", !.sid = a.sid,
                                          !.campaign = campaign, !.etype = etype]
                     ELSE [IdleReq EXCEPT !.pc = "done", !.status = a.status,
                                          !.err = "Session"]]
  /\ UNCHANGED <<now, sessions, events, budget_used, earnings, logs, probe, calls>>

\* lines 205-236: duplicate check on the session's pinned ip, then the geo
\* lookup (a blocking call, no await between the two); every geo provider
\* may fail
DupCheck(r) ==
  /\ req[r].pc = "dup"
  /\ LET is_duplicate ==
           check_duplicate_event(events, req[r].campaign, SessionOf(r).viewer_ip,
                                 req[r].etype, now - RATE_LIMIT_MINUTES)
     IN  \E answered \in BOOLEAN :
           req' = [req EXCEPT ![r] =
                     IF is_duplicate THEN Raise(r, "RateLimited")
                     ELSE IF answered THEN [@ EXCEPT !.pc = "publisher"]
                     ELSE Raise(r, "GeoError")]
  /\ UNCHANGED <<now, sessions, events, budget_used, earnings, logs, probe, calls>>

\* lines 238-243: Publisher.get
GetPublisher(r) ==
  /\ req[r].pc = "publisher"
  /\ req' = [req EXCEPT ![r] =
               IF SessionOf(r).publisher_id \in PublisherRows
               THEN [@ EXCEPT !.pc = "campaign"]
               ELSE Raise(r, "PublisherNotFound")]
  /\ UNCHANGED <<now, sessions, events, budget_used, earnings, logs, probe, calls>>

\* the test of line 261 without its campaign_status half
campaign_rejected_if_missing(c) ==
  c \notin DOMAIN Campaigns

\* line 261: `not campaign or campaign.campaign_status != CampaignStatus.ACTIVE`
campaign_rejected(c) ==
  c \notin DOMAIN Campaigns \/ Campaigns[c].campaign_status # "active"

\* lines 254-266: load the campaign row into the request's session
LoadCampaign(r) ==
  /\ req[r].pc = "campaign"
  /\ LET c == req[r].campaign
     IN  req' = [req EXCEPT ![r] =
                   IF campaign_rejected(c)
                   THEN Raise(r, "InvalidCampaign")
                   ELSE [@ EXCEPT !.pc = "event", !.snap_used = budget_used[c]]]
  /\ UNCHANGED <<now, sessions, events, budget_used, earnings, logs, probe, calls>>

\* lines 268-285: TrackingEvent.create_event (prices the event, adds the
\* row, commits)
CreateEvent(r) ==
  /\ req[r].pc = "event"
  /\ LET device_type == get_device_type(SessionOf(r).viewer_user_agent)
         earnings_details == calculate_earnings(req[r].etype,
                                GeoCountry(SessionOf(r).viewer_ip), device_type)
     IN  IF device_type = "error"
         THEN /\ req' = [req EXCEPT ![r] = Raise(r, "UnknownDevice")]
              /\ UNCHANGED events
         ELSE IF ~earnings_details.ok
         THEN /\ req' = [req EXCEPT ![r] = Raise(r, "PricingError")]
              /\ UNCHANGED events
         ELSE /\ events' = events \cup
                   {[id |-> r, campaign_id |-> req[r].campaign,
                     event_type |-> req[r].etype,
                     viewer_ip |-> SessionOf(r).viewer_ip,
                     publisher_id |-> SessionOf(r).publisher_id,
                     viewer_session_id |-> req[r].sid,
                     earnings |-> earnings_details.earnings,
                     platform_earnings |-> earnings_details.platform_earnings,
                     publisher_earnings |-> earnings_details.publisher_earnings,
                     last_view_timestamp |-> now]}
              /\ req' = [req EXCEPT ![r].pc = "debit",
                                    ![r].made = @ \cup {"event"}]
  /\ UNCHANGED <<now, sessions, budget_used, earnings, logs, probe, calls>>

\* lines 294-296: campaign.increase_budget_used on the loaded object
DebitBudget(r) ==
  /\ req[r].pc = "debit"
  /\ LET c == req[r].campaign
         tracking_event == CHOOSE x \in events : x.id = r
         d == increase_budget_used(Campaigns[c].campaign_budget,
                                   req[r].snap_used, tracking_event.earnings)
     IN  IF d.ok
         THEN /\ budget_used' = [budget_used EXCEPT ![c] = d.used]
              /\ req' = [req EXCEPT ![r].pc = "earn_read",
                                    ![r].made = @ \cup {"debit"}]
         ELSE /\ req' = [req EXCEPT ![r] = Raise(r, d.err)]
              /\ UNCHANGED budget_used
  /\ UNCHANGED <<now, sessions, events, earnings, logs, probe, calls>>

\* the PublisherEarnings object built when the month has no row; columns
\* not passed to the constructor take their defaults (-1 and "" are NULL)
new_earnings(id, publisher_id, month, t) ==
  [id |-> id, publisher_id |-> publisher_id, month |-> ReplaceDay1(month),
   total_views |-> 0, total_clicks |-> 0, total_impressions |-> 0,
   gross_revenue |-> 0, publisher_share |-> 0, platform_share |-> 0,
   withdrawal_status |-> "pending", withdrawal_requested_at |-> -1,
   withdrawal_processed_at |-> -1, withdrawal_notes |-> "", created_at |-> t]

\* The row after the commit of create_or_update_earnings.  `loaded` is the
\* object as the request read it, `stored` the row at commit time: the
\* flush writes the attributes whose value the request changed, computed
\* from `loaded`, and leaves every other column of `stored` alone.
update_earnings(stored, loaded, views, clicks, impressions, gross_revenue, publisher_share, platform_share) ==
  [stored EXCEPT
     !.total_views = IF views # 0 THEN loaded.total_views + views ELSE @,
     !.total_clicks = IF clicks # 0 THEN loaded.total_clicks + clicks ELSE @,
     !.total_impressions =
        IF impressions # 0 THEN loaded.total_impressions + impressions ELSE @,
     !.gross_revenue =
        IF gross_revenue # 0 THEN loaded.gross_revenue + gross_revenue ELSE @,
     !.publisher_share =
        IF publisher_share # 0 THEN loaded.publisher_share + publisher_share ELSE @,
     !.platform_share =
        IF platform_share # 0 THEN loaded.platform_share + platform_share ELSE @]

\* create_or_update_earnings, first await: get_monthly_earnings
ReadEarnings(r) ==
  /\ req[r].pc = "earn_read"
  /\ LET found == get_monthly_earnings(earnings, SessionOf(r).publisher_id, now)
     IN  IF found = {}
         THEN req' = [req EXCEPT ![r].pc = "earn_write",
                                 ![r].snap_bucket =
                                    [id |-> 0, month |-> ReplaceDay1(now)]]
         ELSE \E b \in found :
                req' = [req EXCEPT ![r].pc = "earn_write", ![r].snap_bucket = b]
  /\ UNCHANGED <<now, sessions, events, budget_used, earnings, logs, probe, calls>>

\* create_or_update_earnings, second await: commit of the new row or of
\* the columns computed from the loaded row
WriteEarnings(r) ==
  /\ req[r].pc = "earn_write"
  /\ LET b == req[r].snap_bucket
         e == CHOOSE x \in events : x.id = r
         views == IF req[r].etype = "view" THEN 1 ELSE 0
         clicks == IF req[r].etype = "click" THEN 1 ELSE 0
         impressions == IF req[r].etype = "impression" THEN 1 ELSE 0
         stored == IF b.id = 0
                   THEN new_earnings(r, SessionOf(r).publisher_id, b.month, now)
                   ELSE CHOOSE x \in earnings : x.id = b.id
         loaded == IF b.id = 0 THEN stored ELSE b
         row == update_earnings(stored, loaded, views, clicks, impressions,
                                e.earnings, e.publisher_earnings,
                                e.platform_earnings)
     IN  earnings' = { x \in earnings : x.id # row.id } \cup {row}
  /\ req' = [req EXCEPT ![r].pc = "log", ![r].snap_bucket = NoBucket,
                        ![r].made = @ \cup {"earnings"}]
  /\ UNCHANGED <<now, sessions, events, budget_used, logs, probe, calls>>

\* lines 318-343: INFO audit entry, response object, blacklist cleanup
LogEvent(r) ==
  /\ req[r].pc = "log"
  /\ IF ~LogCallAccepted
     THEN /\ req' = [req EXCEPT ![r] = Raise(r, "TypeError")]
          /\ UNCHANGED logs
     ELSE /\ logs' = logs \cup {[level |-> "INFO", request |-> r]}
          /\ req' = [req EXCEPT ![r] =
                       IF ResponseBuilt
                       THEN [IdleReq EXCEPT !.pc = "done", !.status = 200,
                                            !.made = req[r].made]
                       ELSE Raise(r, "ValidationError")]
  /\ UNCHANGED <<now, sessions, events, budget_used, earnings, probe, calls>>

\* lines 345-371: except Exception: ERROR audit entry, then HTTP 500.  When
\* the log call itself raises, the exception leaves the handler and the
\* framework answers 500.
HandleError(r) ==
  /\ req[r].pc = "handler"
  /\ logs' = IF LogCallAccepted
             THEN logs \cup {[level |-> "ERROR", request |-> r]}
             ELSE logs
  /\ req' = [req EXCEPT ![r] =
               [IdleReq EXCEPT !.pc = "done", !.status = 500,
                               !.err = req[r].err, !.made = req[r].made]]
  /\ UNCHANGED <<now, sessions, events, budget_used, earnings, probe, calls>>

\* time passes
Tick ==
  /\ \E t \in TimePoints : t > now /\ now' = t
  /\ UNCHANGED <<sessions, events, budget_used, earnings, logs, req, probe, calls>>

\* Two sessions issued by init_tracking_session at StartTime
InitialSessions ==
  LET s1 == create_session(<<>>, create_tracking_jwt("1.2.3.4", "chrome_pc", "pub1", StartTime),
                           "1.2.3.4", "chrome_pc", "pub1", StartTime,
                           StartTime + TRACKING_SESSION_EXPIRY + DB_EXPIRY_BUFFER)
  IN  create_session(s1, create_tracking_jwt("5.6.7.8", "safari_iphone", "pub1", StartTime),
                     "5.6.7.8", "safari_iphone", "pub1", StartTime,
                     StartTime + TRACKING_SESSION_EXPIRY + DB_EXPIRY_BUFFER)

Init ==
  /\ now = StartTime
  /\ sessions = InitialSessions
  /\ events = {}
  /\ budget_used = InitialUsed
  /\ earnings = {}
  /\ logs = {}
  /\ req = [r \in Reqs |-> IdleReq]
  /\ probe = NoProbe
  /\ calls = [k \in Calls |-> IdleCall]

Next ==
  \/ \E r \in Reqs : Start(r)
  \/ \E r \in Reqs : DupCheck(r)
  \/ \E r \in Reqs : GetPublisher(r)
  \/ \E r \in Reqs : LoadCampaign(r)
  \/ \E r \in Reqs : CreateEvent(r)
  \/ \E r \in Reqs : DebitBudget(r)
  \/ \E r \in Reqs : ReadEarnings(r)
  \/ \E r \in Reqs : WriteEarnings(r)
  \/ \E r \in Reqs : LogEvent(r)
  \/ \E r \in Reqs : HandleError(r)
  \/ Tick

Spec == Init /\ [][Next]_vars

(***************************************************************************)
(* Session lifecycle: init_tracking_session, get_tracking_session and      *)
(* blacklist_session over an initially empty session table.                *)
(***************************************************************************)

\* POST /track/init/{publisher_id}.  client_ip "" stands for a request
\* without a client address; the body's viewer_user_agent wins over the
\* User-Agent header unless it is empty.
InitUserAgents ==
  { IF body_ua # NoUA THEN body_ua ELSE header_ua :
      body_ua \in ClientUserAgents \cup {NoUA},
      header_ua \in ClientUserAgents \cup {NoUA} }

InitTrackingSession ==
  /\ \E client_ip \in IPs \cup {""}, user_agent \in InitUserAgents,
        publisher_id \in Publishers :
       LET jwt_expiry == now + TRACKING_SESSION_EXPIRY
           db_expiry == jwt_expiry + DB_EXPIRY_BUFFER
           jwt_token == create_tracking_jwt(client_ip, user_agent, publisher_id, now)
       IN  IF client_ip = "" \/ user_agent = NoUA
           THEN /\ probe' = [op |-> "init", status |-> 400, sid |-> 0]
                /\ UNCHANGED sessions
           ELSE IF UAInfo[user_agent].is_bot \/ UAInfo[user_agent].is_email_client
           THEN /\ probe' = [op |-> "init", status |-> 403, sid |-> 0]
                /\ UNCHANGED sessions
           ELSE /\ Len(sessions) < MaxSessions
                /\ sessions' = create_session(sessions, jwt_token, client_ip,
                                              user_agent, publisher_id, now, db_expiry)
                /\ probe' = [op |-> "init", status |-> 201, sid |-> Len(sessions) + 1]
  /\ UNCHANGED <<now, events, budget_used, earnings, logs, req, calls>>

\* a request reaches get_tracking_session; its answer is observed
ValidateSession ==
  /\ \E a \in AuthOutcomes : probe' = [op |-> "validate", status |-> a.status, sid |-> a.sid]
  /\ UNCHANGED <<now, sessions, events, budget_used, earnings, logs, req, calls>>

\* CampaignTrackingSession.blacklist_session(jwt_token)
BlacklistSession ==
  /\ \E i \in DOMAIN sessions :
       sessions' = [j \in DOMAIN sessions |->
                      IF sessions[j].jwt_token = sessions[i].jwt_token
                      THEN [sessions[j] EXCEPT !.is_blacklisted = TRUE,
                                               !.blacklisted_at = now]
                      ELSE sessions[j]]
  /\ UNCHANGED <<now, events, budget_used, earnings, logs, req, probe, calls>>

\* `cls.is_blacklisted is True`: Python's identity test between the column
\* attribute and True, evaluated before the statement is built; its value
\* False becomes the first condition of the WHERE clause
ColumnIsTrue == FALSE

\* the rows after the UPDATE of CampaignTrackingSession.cleanup_blacklist
cleanup_blacklist(rows, t) ==
  LET one_hour_ago == t - BLACKLIST_MAX_AGE
  IN  [i \in DOMAIN rows |->
         IF /\ ColumnIsTrue
            /\ rows[i].blacklisted_at # -1
            /\ rows[i].blacklisted_at <= one_hour_ago
         THEN [rows[i] EXCEPT !.is_blacklisted = FALSE, !.blacklisted_at = -1]
         ELSE rows[i]]

\* CampaignTrackingSession.cleanup_blacklist(session) runs to completion
CleanupBlacklist ==
  /\ sessions' = cleanup_blacklist(sessions, now)
  /\ probe' = [op |-> "cleanup", status |-> 0, sid |-> 0]
  /\ UNCHANGED <<now, events, budget_used, earnings, logs, req, calls>>

TickSession ==
  /\ \E t \in SessionTimePoints : t > now /\ now' = t
  /\ UNCHANGED <<sessions, events, budget_used, earnings, logs, req, probe, calls>>

InitSession ==
  /\ now = StartTime
  /\ sessions = <<>>
  /\ events = {}
  /\ budget_used = InitialUsed
  /\ earnings = {}
  /\ logs = {}
  /\ req = [r \in Reqs |-> IdleReq]
  /\ probe = NoProbe
  /\ calls = [k \in Calls |-> IdleCall]

NextSession ==
  \/ InitTrackingSession
  \/ ValidateSession
  \/ BlacklistSession
  \/ CleanupBlacklist
  \/ TickSession

SpecSession == InitSession /\ [][NextSession]_vars

(***************************************************************************)
(* Withdrawals: PublisherEarnings.request_withdrawal and                   *)
(* process_withdrawal, each a read followed by a commit, running next to   *)
(* each other and next to create_or_update_earnings.                       *)
(***************************************************************************)
WithdrawalTimeOffsets == {0, 2 * MinutesPerDay, 7 * MinutesPerDay - 1, 7 * MinutesPerDay}
WithdrawalTimePoints == {StartTime + d : d \in WithdrawalTimeOffsets}
WithdrawalNotes == {"", "reviewed"}

\* midnight of the first day of the month of t
MonthStart(t) == (t \div MinutesPerMonth) * MinutesPerMonth

\* request_withdrawal after get_monthly_earnings returned `earnings_row`
\* (NoBucket: None) at time t: the result and the attributes it sets
request_withdrawal(earnings_row, t) ==
  IF earnings_row = NoBucket
  THEN [ok |-> FALSE, err |-> "NoEarningsFound", status |-> ""]
  ELSE IF earnings_row.withdrawal_status # "pending"
  THEN [ok |-> FALSE, err |-> "AlreadyInProgress", status |-> ""]
  ELSE IF (t - earnings_row.created_at) \div MinutesPerDay < MIN_WITHDRAWAL_DAYS
  THEN [ok |-> FALSE, err |-> "TooEarly", status |-> ""]
  ELSE IF earnings_row.publisher_share < MINIMUM_PAYOUT
  THEN [ok |-> FALSE, err |-> "BelowMinimumPayout", status |-> ""]
  ELSE [ok |-> TRUE, err |-> "", status |-> "withdrawal_requested"]

\* process_withdrawal after the select by id returned `earnings_row`
process_withdrawal(earnings_row, approve) ==
  IF earnings_row = NoBucket
  THEN [ok |-> FALSE, err |-> "NotFound", status |-> ""]
  ELSE IF earnings_row.withdrawal_status # "withdrawal_requested"
  THEN [ok |-> FALSE, err |-> "CannotProcess", status |-> ""]
  ELSE [ok |-> TRUE, err |-> "",
        status |-> IF approve THEN "withdrawal_completed"
                   ELSE "withdrawal_rejected"]

\* the record of call k after its read, given the result of the checks
AfterLoad(op, publisher_id, month, id, notes, res) ==
  [pc |-> IF res.ok THEN "commit" ELSE "done", op |-> op,
   publisher_id |-> publisher_id, month |-> month, id |-> id,
   status |-> res.status, stamp |-> IF res.ok THEN now ELSE -1,
   notes |-> notes, ok |-> res.ok, err |-> res.err]

\* request_withdrawal up to `await db_session.commit()`
RequestWithdrawalLoad(k) ==
  /\ calls[k].pc \in {"idle", "done"}
  /\ \E publisher_id \in Publishers, month \in {now, MonthStart(now)} :
       LET found == get_monthly_earnings(earnings, publisher_id, month)
       IN  \E b \in (IF found = {} THEN {NoBucket} ELSE found) :
             calls' = [calls EXCEPT ![k] =
                         AfterLoad("request", publisher_id, month, b.id, "",
                                   request_withdrawal(b, now))]
  /\ UNCHANGED <<now, sessions, events, budget_used, earnings, logs, req, probe>>

\* the commit of request_withdrawal: the two attributes it set are written
RequestWithdrawalCommit(k) ==
  /\ calls[k].pc = "commit" /\ calls[k].op = "request"
  /\ earnings' = { IF x.id = calls[k].id
                   THEN [x EXCEPT !.withdrawal_status = calls[k].status,
                                  !.withdrawal_requested_at = calls[k].stamp]
                   ELSE x : x \in earnings }
  /\ calls' = [calls EXCEPT ![k].pc = "done"]
  /\ UNCHANGED <<now, sessions, events, budget_used, logs, req, probe>>

\* process_withdrawal up to `await db_session.commit()`
ProcessWithdrawalLoad(k) ==
  /\ calls[k].pc \in {"idle", "done"}
  /\ \E earnings_id \in 1..(MaxEvents + 1), approve \in BOOLEAN,
        notes \in WithdrawalNotes :
       LET found == { x \in earnings : x.id = earnings_id }
       IN  \E b \in (IF found = {} THEN {NoBucket} ELSE found) :
             calls' = [calls EXCEPT ![k] =
                         AfterLoad("process", "", -1, b.id, notes,
                                   process_withdrawal(b, approve))]
  /\ UNCHANGED <<now, sessions, events, budget_used, earnings, logs, req, probe>>

\* the commit of process_withdrawal
ProcessWithdrawalCommit(k) ==
  /\ calls[k].pc = "commit" /\ calls[k].op = "process"
  /\ earnings' = { IF x.id = calls[k].id
                   THEN [x EXCEPT !.withdrawal_status = calls[k].status,
                                  !.withdrawal_processed_at = calls[k].stamp,
                                  !.withdrawal_notes = calls[k].notes]
                   ELSE x : x \in earnings }
  /\ calls' = [calls EXCEPT ![k].pc = "done"]
  /\ UNCHANGED <<now, sessions, events, budget_used, logs, req, probe>>

RECURSIVE TotalEvents(_)
TotalEvents(rows) ==
  IF rows = {} THEN 0
  ELSE LET x == CHOOSE y \in rows : TRUE
       IN  x.total_views + x.total_clicks + x.total_impressions
           + TotalEvents(rows \ {x})

\* create_or_update_earnings for one event of publisher pub1 (a desktop
\* viewer in the US), as track_campaign calls it with month = now
IngestEarnings ==
  /\ TotalEvents(earnings) < MaxEvents
  /\ \E event_type \in EventTypes :
       LET e == calculate_earnings(event_type, "US", "desktop")
           found == get_monthly_earnings(earnings, "pub1", now)
           views == IF event_type = "view" THEN 1 ELSE 0
           clicks == IF event_type = "click" THEN 1 ELSE 0
           impressions == IF event_type = "impression" THEN 1 ELSE 0
       IN  \E b \in (IF found = {}
                     THEN {new_earnings(Cardinality(earnings) + 1, "pub1", now, now)}
                     ELSE found) :
             earnings' = (earnings \ {b}) \cup
                           {update_earnings(b, b, views, clicks, impressions,
                                            e.earnings, e.publisher_earnings,
                                            e.platform_earnings)}
  /\ UNCHANGED <<now, sessions, events, budget_used, logs, req, probe, calls>>

TickWithdrawal ==
  /\ \E t \in WithdrawalTimePoints : t > now /\ now' = t
  /\ UNCHANGED <<sessions, events, budget_used, earnings, logs, req, probe, calls>>

\* One bucket of pub1 created at StartTime by n clicks of a desktop viewer
\* in the US, n being 1 (below the minimum payout) or 2 (at it)
InitialBucket(n) ==
  LET e == calculate_earnings("click", "US", "desktop")
      b == new_earnings(1, "pub1", StartTime, StartTime)
  IN  [b EXCEPT !.total_clicks = n, !.gross_revenue = n * e.earnings,
                !.publisher_share = n * e.publisher_earnings,
                !.platform_share = n * e.platform_earnings]

InitWithdrawal ==
  /\ now = StartTime
  /\ sessions = <<>>
  /\ events = {}
  /\ budget_used = InitialUsed
  /\ \E n \in 1..2 : earnings = {InitialBucket(n)}
  /\ logs = {}
  /\ req = [r \in Reqs |-> IdleReq]
  /\ probe = NoProbe
  /\ calls = [k \in Calls |-> IdleCall]

NextWithdrawal ==
  \/ \E k \in Calls : RequestWithdrawalLoad(k)
  \/ \E k \in Calls : RequestWithdrawalCommit(k)
  \/ \E k \in Calls : ProcessWithdrawalLoad(k)
  \/ \E k \in Calls : ProcessWithdrawalCommit(k)
  \/ IngestEarnings
  \/ TickWithdrawal

SpecWithdrawal == InitWithdrawal /\ [][NextWithdrawal]_vars

(***************************************************************************)
(* Pricing calls: PricingManager.calculate_revenue called repeatedly with  *)
(* the same arguments.  The manager holds the configuration it loaded at   *)
(* construction and no other state.                                        *)
(***************************************************************************)
PricingCountries == {"US", "ca", "ZZ", "Unknown"}
PricingInteractions == EventTypes \cup {"hover"}
PricingDevices == {"mobile", "tablet", "DESKTOP", "tv"}

\* the arguments of the calls, n calls made, the result of the last one
PricingCall(country_code, interaction_type, device_type) ==
  [op |-> "calculate_revenue", country_code |-> country_code,
   interaction_type |-> interaction_type, device_type |-> device_type,
   n |-> 0, result |-> [ok |-> FALSE]]

CalculateRevenue ==
  /\ probe.n < MaxQuotes
  /\ probe' = [probe EXCEPT
                 !.n = @ + 1,
                 !.result = calculate_revenue(probe.country_code,
                                              probe.interaction_type,
                                              probe.device_type)]
  /\ UNCHANGED <<now, sessions, events, budget_used, earnings, logs, req, calls>>

InitPricing ==
  /\ now = StartTime
  /\ sessions = <<>>
  /\ events = {}
  /\ budget_used = InitialUsed
  /\ earnings = {}
  /\ logs = {}
  /\ req = [r \in Reqs |-> IdleReq]
  /\ calls = [k \in Calls |-> IdleCall]
  /\ \E country_code \in PricingCountries,
        interaction_type \in PricingInteractions,
        device_type \in PricingDevices :
       probe = PricingCall(country_code, interaction_type, device_type)

NextPricing == CalculateRevenue

SpecPricing == InitPricing /\ [][NextPricing]_vars

(***************************************************************************)
(* Properties of the ingestion pipeline (specification Spec).              *)
(***************************************************************************)
EventOf(r) == CHOOSE e \in events : e.id = r
HasEvent(r) == \E e \in events : e.id = r
EventsOfCampaign(c) == { e \in events : e.campaign_id = c }
\* requests whose increase_budget_used call on campaign c returned normally
Debitors(c) == { r \in Reqs : "debit" \in req[r].made /\ EventOf(r).campaign_id = c }
Quiescent == \A r \in Reqs : req[r].pc \in {"idle", "done"}

RECURSIVE SumEarnings(_)
SumEarnings(rs) ==
  IF rs = {} THEN 0
  ELSE LET r == CHOOSE x \in rs : TRUE
       IN  EventOf(r).earnings + SumEarnings(rs \ {r})

\* C1: in every reachable state, under every interleaving of track
\* requests, the stored campaign_budget_used of each campaign is at most
\* its campaign_budget.
C1_BudgetNeverExceeded ==
  \A c \in DOMAIN Campaigns : budget_used[c] <= Campaigns[c].campaign_budget

\* a debit filled the budget exactly and a later debit was refused
C1_Witness ==
  /\ budget_used["camp1"] = Campaigns["camp1"].campaign_budget
  /\ \E r1, r2 \in Reqs :
       /\ "debit" \in req[r1].made
       /\ req[r2].err = "BudgetExceeded"

\* C2: a track request that has ended has committed either all three of
\* its writes (event row, budget debit, earnings bucket) or none of them.
C2_AllOrNothing ==
  \A r \in Reqs : req[r].pc = "done" => req[r].made \in {{}, AllWrites}

\* C3: once no request is in flight, each campaign has as many successful
\* budget debits as persisted TrackingEvents.
C3_DebitsMatchEvents ==
  Quiescent =>
    \A c \in CampaignIds :
      Cardinality(Debitors(c)) = Cardinality(EventsOfCampaign(c))

\* C4: a request whose priced event would exceed the budget fails,
\* persists no TrackingEvent and does not change budget_used.
C4_ExceedLeavesNothing ==
  \A r \in Reqs :
    req[r].err = "BudgetExceeded" =>
      /\ ~HasEvent(r)
      /\ "debit" \notin req[r].made

\* an event with the same (ip, campaign, event type) as request r, not
\* older than the cooldown
DupKeyExists(r) ==
  \E e \in events :
     /\ e.campaign_id = req[r].campaign
     /\ e.viewer_ip = SessionOf(r).viewer_ip
     /\ e.event_type = req[r].etype
     /\ now - e.last_view_timestamp <= RATE_LIMIT_MINUTES

C5_Step ==
  \A r \in Reqs :
    /\ (req[r].pc = "dup" /\ req'[r].pc # "dup" /\ DupKeyExists(r)) =>
          /\ req'[r].err = "RateLimited"
          /\ events' = events /\ budget_used' = budget_used /\ earnings' = earnings
    /\ (req[r].err = "RateLimited" /\ req'[r] # req[r]) =>
          /\ req'[r].pc = "done" /\ req'[r].status >= 400 /\ req'[r].made = {}
          /\ events' = events /\ budget_used' = budget_used /\ earnings' = earnings

\* C5: a request that reaches the duplicate check while an event with its
\* (viewer ip, campaign, event type) exists inside the cooldown window is
\* rejected, creates no event and changes neither budget_used nor the
\* earnings bucket, so the first event stays the only one.
C5_DuplicateRejected == [][C5_Step]_vars

\* one request persisted the event, the next one was rejected as duplicate
C5_Witness ==
  \E r1, r2 \in Reqs :
    /\ r1 # r2
    /\ HasEvent(r1)
    /\ req[r2].pc = "done" /\ req[r2].err = "RateLimited"
    /\ Cardinality(events) = 1

\* the step in which request r is answered
Answered(r) == req[r].pc # "done" /\ req'[r].pc = "done"

C6_Step ==
  \A r \in Reqs :
    Answered(r) =>
      /\ (req[r].err = "RateLimited" => req'[r].status = 429)
      /\ (req[r].err = "PublisherNotFound" => req'[r].status = 404)
      /\ ((req[r].err = "InvalidCampaign" /\ req[r].campaign \notin DOMAIN Campaigns)
            => req'[r].status = 404)

\* C6: a duplicate is answered with 429, and a request naming a publisher
\* or a campaign that has no row is answered with 404.
C6_SpecificStatus == [][C6_Step]_vars

\* C7: no two persisted events share (viewer ip, campaign, event type)
\* within one cooldown window, whatever the interleaving.
C7_AtMostOnePerKey ==
  \A e1, e2 \in events :
    (/\ e1.id # e2.id
     /\ e1.campaign_id = e2.campaign_id
     /\ e1.viewer_ip = e2.viewer_ip
     /\ e1.event_type = e2.event_type)
    => (e1.last_view_timestamp - e2.last_view_timestamp > RATE_LIMIT_MINUTES
        \/ e2.last_view_timestamp - e1.last_view_timestamp > RATE_LIMIT_MINUTES)

\* C8: once no request is in flight, budget_used is the initial value plus
\* the amounts of all debits that reported success, and that sum is at most
\* the budget.  Stated for debits of whole cents, the amounts the budget
\* column stores without rounding.
C8_NoLostDebit ==
  Quiescent =>
    \A c \in DOMAIN Campaigns :
      (\A r \in Debitors(c) : EventOf(r).earnings % Cent = 0) =>
         /\ budget_used[c] = InitialUsed[c] + SumEarnings(Debitors(c))
         /\ InitialUsed[c] + SumEarnings(Debitors(c)) <= Campaigns[c].campaign_budget


\* The two checks of the claim, for a request (cookie, ip, ua, pub) at `now`
TokenVerifies(cookie) ==
  IF cookie = NoCookie THEN FALSE
  ELSE cookie.sig = "valid" /\ cookie.exp > now

MatchingRowExists(cookie, ip, ua, pub) ==
  \E i \in DOMAIN sessions :
     /\ sessions[i].jwt_token = cookie
     /\ sessions[i].viewer_ip = ip
     /\ sessions[i].viewer_user_agent = ua
     /\ sessions[i].publisher_id = pub
     /\ sessions[i].expires_at > now
     /\ ~sessions[i].is_blacklisted

\* C9: get_tracking_session returns a session only when the token verifies
\* and a matching row that is neither expired nor blacklisted exists; every
\* other request is answered with 401.
C9_SessionOnlyWhenBothChecksPass ==
  \A cookie \in CookieInputs(sessions), ip \in IPs,
     ua \in ClientUserAgents \cup {NoUA}, pub \in Publishers :
     LET a == get_tracking_session(sessions, cookie, ip, ua, pub, now)
         both == TokenVerifies(cookie) /\ MatchingRowExists(cookie, ip, ua, pub)
     IN  /\ a.status = 200 => both
         /\ ~both => a.status = 401

C11_ValidUntilExpiry ==
  \A i \in DOMAIN sessions :
     LET s == sessions[i]
         a == get_tracking_session(sessions, s.jwt_token, s.viewer_ip,
                                   s.viewer_user_agent, s.publisher_id, now)
     IN  ~s.is_blacklisted =>
           /\ now < s.jwt_token.exp => (a.status = 200 /\ a.sid = i)
           /\ now >= s.jwt_token.exp => a.status = 401


\* the tokens all of whose rows are blacklisted
BlacklistedTokens(rows) ==
  { rows[i].jwt_token : i \in DOMAIN rows } \
  { rows[i].jwt_token : i \in { j \in DOMAIN rows : ~rows[j].is_blacklisted } }

C12_Step ==
  /\ \A i \in DOMAIN sessions :
       (i \in DOMAIN sessions' /\ ~sessions[i].is_blacklisted
          /\ sessions'[i].is_blacklisted) =>
         \A j \in DOMAIN sessions :
           sessions[j].jwt_token = sessions[i].jwt_token =>
             /\ sessions'[j].is_blacklisted
             /\ sessions'[j].blacklisted_at = now
             /\ sessions'[j].jwt_token \in BlacklistedTokens(sessions')
  /\ \A tk \in BlacklistedTokens(sessions'), ip \in IPs,
        ua \in ClientUserAgents \cup {NoUA}, pub \in Publishers :
       get_tracking_session(sessions', tk, ip, ua, pub, now').status # 200

C13_Step ==
  (probe.op # "cleanup" /\ probe'.op = "cleanup") =>
    \A i \in DOMAIN sessions :
      /\ (sessions[i].is_blacklisted
            /\ sessions[i].blacklisted_at < now - BLACKLIST_MAX_AGE) =>
           (~sessions'[i].is_blacklisted /\ sessions'[i].blacklisted_at = -1)
      /\ (sessions[i].is_blacklisted
            /\ sessions[i].blacklisted_at > now - BLACKLIST_MAX_AGE) =>
           sessions'[i].is_blacklisted

\* C13: a run of cleanup_blacklist clears is_blacklisted and blacklisted_at
\* on every row blacklisted more than one hour earlier and leaves every row
\* blacklisted less than one hour earlier blacklisted.
C13_CleanupUnblacklists == [][C13_Step]_vars


C14_Step ==
  \A r \in Reqs :
    (req[r].pc = "idle" /\ req'[r].pc = "done") =>
      /\ req'[r].status = 401
      /\ events' = events /\ budget_used' = budget_used
      /\ earnings' = earnings /\ logs' = logs

\* C14: a track request turned away by get_tracking_session (cookie
\* missing, invalid, expired, blacklisted or not matching the fingerprint)
\* is answered 401 and writes no event, no debit, no earnings and no log.
C14_AuthFailureIs401 == [][C14_Step]_vars


C15_Step ==
  \A r \in Reqs :
    (req[r].pc = "handler" /\ req'[r].pc = "done") =>
      /\ req'[r].status = 500
      /\ logs' \ logs = {[level |-> "ERROR", request |-> r]}

\* C15: a track request that failed inside the pipeline (geo resolution,
\* campaign load, pricing, debit, earnings update, audit logging) is
\* answered 500 and adds exactly one ERROR entry for it to the audit log.
C15_FailureLogged == [][C15_Step]_vars


\* request r names a campaign that has no row or is not ACTIVE
NamesUnusableCampaign(r) ==
  \/ req[r].campaign \notin DOMAIN Campaigns
  \/ Campaigns[req[r].campaign].campaign_status # "active"

C16_Step ==
  \A r \in Reqs :
    /\ (req[r].pc = "campaign" /\ req'[r].pc # "campaign" /\ NamesUnusableCampaign(r)) =>
         /\ req'[r].err = "InvalidCampaign" /\ req'[r].made = {}
         /\ events' = events /\ budget_used' = budget_used /\ earnings' = earnings
    /\ (req[r].err = "InvalidCampaign" /\ req'[r] # req[r]) =>
         /\ req'[r].pc = "done" /\ req'[r].status >= 400 /\ req'[r].made = {}
         /\ events' = events /\ budget_used' = budget_used /\ earnings' = earnings

Eligible(pub, month) ==
  \E b \in earnings :
     /\ b.publisher_id = pub
     /\ MonthStart(b.month) = MonthStart(month)
     /\ b.withdrawal_status = "pending"
     /\ now - b.created_at >= MIN_WITHDRAWAL_DAYS * MinutesPerDay
     /\ b.publisher_share >= MINIMUM_PAYOUT

\* call k makes the read of operation op in this step
Loads(k, op) ==
  /\ calls[k].pc \in {"idle", "done"}
  /\ calls'[k] # calls[k]
  /\ calls'[k].op = op

\* call k commits operation op in this step
Commits(k, op) ==
  calls[k].pc = "commit" /\ calls[k].op = op /\ calls'[k].pc = "done"

C17_Step ==
  \A k \in Calls :
    /\ Loads(k, "request") =>
         /\ calls'[k].ok <=> Eligible(calls'[k].publisher_id, calls'[k].month)
         /\ earnings' = earnings
    /\ Commits(k, "request") =>
         \A x \in earnings :
            IF x.id = calls[k].id
            THEN [x EXCEPT !.withdrawal_status = "withdrawal_requested",
                           !.withdrawal_requested_at = now] \in earnings'
            ELSE x \in earnings'

\* C17: request_withdrawal succeeds exactly when the publisher's bucket of
\* the month exists, is pending, is at least 7 days old and holds at least
\* the minimum payout; a failure leaves the table as it is and a success
\* sets withdrawal_requested and stamps withdrawal_requested_at.
C17_RequestWithdrawal == [][C17_Step]_vars

C18_Step ==
  \A k \in Calls :
    /\ Loads(k, "process") =>
         /\ earnings' = earnings
         /\ calls'[k].ok =>
              \E b \in earnings : /\ b.id = calls'[k].id
                                  /\ b.withdrawal_status = "withdrawal_requested"
    /\ Commits(k, "process") =>
         /\ calls[k].status \in {"withdrawal_completed", "withdrawal_rejected"}
         /\ \A x \in earnings :
              IF x.id = calls[k].id
              THEN LET y == [x EXCEPT !.withdrawal_status = calls[k].status,
                                      !.withdrawal_processed_at = calls[k].stamp,
                                      !.withdrawal_notes = calls[k].notes]
                   IN  /\ y \in earnings'
                       /\ y # x => x.withdrawal_status = "withdrawal_requested"
              ELSE x \in earnings'

\* C18: process_withdrawal changes a bucket only when the bucket's status is
\* withdrawal_requested, to withdrawal_completed or withdrawal_rejected
\* with withdrawal_processed_at and the notes stamped; a call that fails
\* (missing record, other status) changes nothing.
C18_ProcessOnlyRequested == [][C18_Step]_vars

\* the four withdrawal columns of a bucket
WithdrawalFields(x) ==
  <<x.withdrawal_status, x.withdrawal_requested_at,
    x.withdrawal_processed_at, x.withdrawal_notes>>

\* a step in which no withdrawal call commits (event ingestion, the reads
\* of the calls, time passing) leaves the withdrawal columns as they are
C19_OnlyCommitsWrite ==
  (\A k \in Calls : ~Commits(k, "request") /\ ~Commits(k, "process")) =>
     \A x \in earnings, y \in earnings' :
        x.id = y.id => WithdrawalFields(y) = WithdrawalFields(x)

C19_Step ==
  /\ C19_OnlyCommitsWrite
  /\ \A x \in earnings, y \in earnings' :
       (x.id = y.id /\ y.withdrawal_status # x.withdrawal_status) =>
          \/ /\ x.withdrawal_status = "pending"
             /\ y.withdrawal_status = "withdrawal_requested"
             /\ \E k \in Calls : Commits(k, "request")
          \/ /\ x.withdrawal_status = "withdrawal_requested"
             /\ y.withdrawal_status \in {"withdrawal_completed",
                                         "withdrawal_rejected"}
             /\ \E k \in Calls : Commits(k, "process")

\* C19: a bucket's withdrawal status changes only from pending to
\* withdrawal_requested (request_withdrawal) and from withdrawal_requested
\* to withdrawal_completed or withdrawal_rejected (process_withdrawal), the
\* last two being terminal; event ingestion changes no withdrawal column.
C19_StateMachine == [][C19_Step]_vars

(***************************************************************************)
(* Properties of pricing (specification SpecPricing).                      *)
(***************************************************************************)

C20_Step ==
  (probe'.n = probe.n + 1 /\ probe'.result.ok) =>
     LET r == probe'.result
     IN  /\ r.final_rate * MultiplierScale =
              get_base_rate(probe.country_code, probe.interaction_type)
                * get_device_multiplier(probe.device_type)
         /\ r.currency =
              PricingRegions[get_region_for_country(probe.country_code)].currency
         /\ probe.n > 0 => r = probe.result

EarlierId == NReq + 1
EarlierTime == StartTime - MinutesPerDay

EarlierEvent ==
  LET e == calculate_earnings("click", GeoCountry("1.2.3.4"), get_device_type("chrome_pc"))
  IN  [id |-> EarlierId, campaign_id |-> "camp1", event_type |-> "click",
       viewer_ip |-> "1.2.3.4", publisher_id |-> "pub1", viewer_session_id |-> 0,
       earnings |-> e.earnings, platform_earnings |-> e.platform_earnings,
       publisher_earnings |-> e.publisher_earnings,
       last_view_timestamp |-> EarlierTime]

EarlierBucket ==
  update_earnings(new_earnings(EarlierId, "pub1", EarlierTime, EarlierTime), new_earnings(EarlierId, "pub1", EarlierTime, EarlierTime), 0, 1, 0, EarlierEvent.earnings, EarlierEvent.publisher_earnings, EarlierEvent.platform_earnings)

InitIngest ==
  /\ now = StartTime
  /\ sessions = InitialSessions
  /\ events = {EarlierEvent}
  /\ budget_used = InitialUsed
  /\ earnings = {EarlierBucket}
  /\ logs = {}
  /\ req = [r \in Reqs |-> IdleReq]
  /\ probe = NoProbe
  /\ calls = [k \in Calls |-> IdleCall]

SpecIngest == InitIngest /\ [][Next]_vars

(***************************************************************************)
(* IPInfoGrabber.get_ip_info (app/utils/ip_info_grabber.py): one call,     *)
(* one action per provider asked.  What each provider would do when asked  *)
(* is fixed for the call: it answers with a JSON object or requests.get /  *)
(* raise_for_status raises a requests.RequestException.                    *)
(***************************************************************************)
API_URLS == <<"ip-api.com", "ipinfo.io">>
GeoErrors == {"ConnectionError", "HTTPError"}
\* the JSON objects of the providers, by the key that carries the country
GeoAnswers ==
  { [key |-> "countryCode", country |-> "US"],
    [key |-> "country_code", country |-> "ZZ"],
    [key |-> "none", country |-> ""] }
GeoBehaviours ==
  { [ok |-> TRUE, data |-> a, error |-> ""] : a \in GeoAnswers } \cup
  { [ok |-> FALSE, data |-> [key |-> "none", country |-> ""], error |-> e] : e \in GeoErrors }
GeoAddresses == {"1.2.3.4", "127.0.0.1", "not-an-ip"}
Loopback == {"127.0.0.1", "::1"}
NoException == [type |-> "", url |-> ""]
NoIPInformation == [ok |-> FALSE, country |-> "", error |-> NoException]

\* the address passes the format test of get_ip_info
ValidAddressFormat(ip_address) == ip_address # "not-an-ip"

\* the country of the IPInformation built from a provider's JSON object
CountryOf(data) ==
  IF data.key \in {"countryCode", "country_code"} THEN data.country ELSE "Unknown"

\* one pass of the loop that remembers the first exception, not the last
get_api_response_try_keeping_first(loc, behaviour) ==
  IF behaviour.ok
  THEN [loc EXCEPT !.pc = "done", !.asked = Append(@, loc.i),
                   !.result = [ok |-> TRUE, country |-> CountryOf(behaviour.data),
                               error |-> NoException]]
  ELSE [loc EXCEPT !.i = @ + 1, !.asked = Append(@, loc.i),
                   !.last_exception =
                      IF @ = NoException
                      THEN [type |-> behaviour.error, url |-> API_URLS[loc.i]]
                      ELSE @]

\* _get_api_response, one pass of `for url in self.API_URLS` with the
\* locals `loc`, the provider behaving as `behaviour`
get_api_response_try(loc, behaviour) ==
  IF behaviour.ok
  THEN [loc EXCEPT !.pc = "done", !.asked = Append(@, loc.i),
                   !.result = [ok |-> TRUE, country |-> CountryOf(behaviour.data),
                               error |-> NoException]]
  ELSE [loc EXCEPT !.i = @ + 1, !.asked = Append(@, loc.i),
                   !.last_exception = [type |-> behaviour.error, url |-> API_URLS[loc.i]]]

\* a call of get_ip_info that has not started
GeoCall(ip_address, debug, behaviours) ==
  [op |-> "get_ip_info", ip_address |-> ip_address, debug |-> debug,
   behaviours |-> behaviours, pc |-> "call", i |-> 1, asked |-> <<>>,
   last_exception |-> NoException, result |-> NoIPInformation]

\* get_ip_info up to the call of _get_api_response
GetIpInfo ==
  /\ probe.pc = "call"
  /\ probe' =
       IF probe.debug /\ probe.ip_address \in Loopback
       THEN [probe EXCEPT !.pc = "done",
                          !.result = [ok |-> TRUE, country |-> "Unknown",
                                      error |-> NoException]]
       ELSE IF ~ValidAddressFormat(probe.ip_address)
       THEN [probe EXCEPT !.pc = "done",
                          !.result = [ok |-> FALSE, country |-> "",
                                      error |-> [type |-> "InvalidFormat", url |-> ""]]]
       ELSE [probe EXCEPT !.pc = "loop"]
  /\ UNCHANGED <<now, sessions, events, budget_used, earnings, logs, req, calls>>

AskProvider ==
  /\ probe.pc = "loop" /\ probe.i <= Len(API_URLS)
  /\ probe' = get_api_response_try(probe, probe.behaviours[probe.i])
  /\ UNCHANGED <<now, sessions, events, budget_used, earnings, logs, req, calls>>

\* after the loop: `if last_exception: raise last_exception`
RaiseLast ==
  /\ probe.pc = "loop" /\ probe.i > Len(API_URLS)
  /\ probe' = [probe EXCEPT !.pc = "done",
                            !.result = [ok |-> FALSE, country |-> "",
                                        error |-> probe.last_exception]]
  /\ UNCHANGED <<now, sessions, events, budget_used, earnings, logs, req, calls>>

InitGeo ==
  /\ now = StartTime
  /\ sessions = <<>>
  /\ events = {}
  /\ budget_used = InitialUsed
  /\ earnings = {}
  /\ logs = {}
  /\ req = [r \in Reqs |-> IdleReq]
  /\ calls = [k \in Calls |-> IdleCall]
  /\ \E ip_address \in GeoAddresses, debug \in BOOLEAN,
        behaviours \in [DOMAIN API_URLS -> GeoBehaviours] :
       probe = GeoCall(ip_address, debug, behaviours)

NextGeo ==
  \/ GetIpInfo
  \/ AskProvider
  \/ RaiseLast

SpecGeo == InitGeo /\ [][NextGeo]_vars

(***************************************************************************)
(* app/db/tx_session.py: one user of a transactional session.  The user    *)
(* either enters `async with get_transactional_session(commit_on_exit)`    *)
(* with a body that adds rows and calls commit(), or constructs a          *)
(* TxAsyncSession and calls its methods.  `pending` counts the changes of  *)
(* the open transaction, `committed` those the database has committed.     *)
(***************************************************************************)
BodyCalls == {"add", "commit"}
SessionCalls == {"add", "commit", "final_commit", "rollback"}

\* the sequences over S of length at most n
SeqsUpTo(S, n) == UNION { [1..m -> S] : m \in 0..n }

\* what the name `async_sessionmaker` imported from app.db.db_session is:
\* the factory class of sqlalchemy.ext.asyncio that db_session.py imports,
\* whose instances are called to make sessions and offer begin(), and are
\* not asynchronous context managers
SessionmakerMethods == {"__call__", "begin", "configure"}
EntersAsyncWith == {"__aenter__", "__aexit__"} \subseteq SessionmakerMethods

\* TxAsyncSession.__init__
NewTxSession ==
  [commit_on_exit |-> TRUE, is_committing |-> FALSE,
   pending |-> 0, committed |-> 0, real_commits |-> 0]

\* AsyncSession.commit
super_commit(s) ==
  [s EXCEPT !.committed = @ + s.pending, !.pending = 0, !.real_commits = @ + 1]

\* TxAsyncSession.commit
tx_commit(s) ==
  IF s.is_committing THEN super_commit(s) ELSE s

\* TxAsyncSession.final_commit
final_commit(s) ==
  [super_commit([s EXCEPT !.is_committing = TRUE]) EXCEPT !.is_committing = FALSE]

\* TxAsyncSession.rollback
rollback(s) == [s EXCEPT !.pending = 0]

\* session.add(row)
add(s) == [s EXCEPT !.pending = @ + 1]

TxUse(mode, commit_on_exit, script) ==
  [op |-> "tx", mode |-> mode, commit_on_exit |-> commit_on_exit,
   script |-> script, pc |-> "start", session |-> NewTxSession, error |-> ""]

\* get_transactional_session up to its yield: `async with
\* async_sessionmaker() as session` on an object that is no context manager
EnterContext ==
  /\ probe.pc = "start" /\ probe.mode = "context"
  /\ probe' = IF EntersAsyncWith
              THEN [probe EXCEPT !.pc = "body",
                                 !.session.commit_on_exit = probe.commit_on_exit]
              ELSE [probe EXCEPT !.pc = "done", !.error = "TypeError"]
  /\ UNCHANGED <<now, sessions, events, budget_used, earnings, logs, req, calls>>

\* TxAsyncSession(bind) constructed by the user
Construct ==
  /\ probe.pc = "start" /\ probe.mode = "direct"
  /\ probe' = [probe EXCEPT !.pc = "body"]
  /\ UNCHANGED <<now, sessions, events, budget_used, earnings, logs, req, calls>>

\* the next call of the user on the session
SessionCall ==
  /\ probe.pc = "body" /\ probe.script # <<>>
  /\ LET c == Head(probe.script)
         s == probe.session
     IN  probe' = [probe EXCEPT
                     !.script = Tail(@),
                     !.session = CASE c = "add" -> add(s)
                                   [] c = "commit" -> tx_commit(s)
                                   [] c = "final_commit" -> final_commit(s)
                                   [] OTHER -> rollback(s)]
  /\ UNCHANGED <<now, sessions, events, budget_used, earnings, logs, req, calls>>

\* the end of the body; in the context: `if commit_on_exit: final_commit()`
EndOfBody ==
  /\ probe.pc = "body" /\ probe.script = <<>>
  /\ probe' = [probe EXCEPT
                 !.pc = "done",
                 !.session = IF probe.mode = "context" /\ probe.commit_on_exit
                             THEN final_commit(@) ELSE @]
  /\ UNCHANGED <<now, sessions, events, budget_used, earnings, logs, req, calls>>

InitTx ==
  /\ now = StartTime
  /\ sessions = <<>>
  /\ events = {}
  /\ budget_used = InitialUsed
  /\ earnings = {}
  /\ logs = {}
  /\ req = [r \in Reqs |-> IdleReq]
  /\ calls = [k \in Calls |-> IdleCall]
  /\ \/ \E commit_on_exit \in BOOLEAN, script \in SeqsUpTo(BodyCalls, MaxBody) :
          probe = TxUse("context", commit_on_exit, script)
     \/ \E script \in SeqsUpTo(SessionCalls, MaxBody) :
          probe = TxUse("direct", TRUE, script)

NextTx ==
  \/ EnterContext
  \/ Construct
  \/ SessionCall
  \/ EndOfBody

SpecTx == InitTx /\ [][NextTx]_vars

(***************************************************************************)
(* Properties of the earnings buckets and the ledger (specification Spec). *)
(***************************************************************************)

\* C21: at every moment of every interleaving of track requests the table
\* publisher_earnings holds at most one row per publisher and calendar
\* month.
C21_OneRowPerMonth ==
  \A a \in earnings, b \in earnings :
     (a.publisher_id = b.publisher_id /\ MonthStart(a.month) = MonthStart(b.month))
        => a = b

RECURSIVE SumField(_, _)
\* the sum of column f over a set of rows
SumField(rows, f) ==
  IF rows = {} THEN 0
  ELSE LET x == CHOOSE y \in rows : TRUE
       IN  x[f] + SumField(rows \ {x}, f)

\* request r commits its create_or_update_earnings in this step
WritesEarnings(r) == req[r].pc = "earn_write" /\ req'[r].pc = "log"

C22_Step ==
  \A r \in Reqs :
    WritesEarnings(r) =>
      LET pub == SessionOf(r).publisher_id
          e == CHOOSE x \in events : x.id = r
          before == { x \in earnings : x.publisher_id = pub }
          after == { x \in earnings' : x.publisher_id = pub }
          Added(f) == SumField(after, f) - SumField(before, f)
      IN  /\ Added("total_views") = (IF e.event_type = "view" THEN 1 ELSE 0)
          /\ Added("total_clicks") = (IF e.event_type = "click" THEN 1 ELSE 0)
          /\ Added("total_impressions") =
               (IF e.event_type = "impression" THEN 1 ELSE 0)
          /\ Added("gross_revenue") = e.earnings
          /\ Added("publisher_share") = e.publisher_earnings
          /\ Added("platform_share") = e.platform_earnings

\* C22: the commit of create_or_update_earnings of every ingestion raises
\* the publisher's counter of the event's type by 1, the two other counters
\* by 0 and the three revenue columns by the event's earnings, other
\* ingestions of the publisher running at the same time or not.
C22_NoLostIncrement == [][C22_Step]_vars

\* request r commits its debit in this step
Debits(r) == req[r].pc = "debit" /\ req'[r].pc = "earn_read"

C23_Step ==
  \A r \in Reqs :
    (Debits(r) /\ EventOf(r).earnings % Cent = 0) =>
       budget_used'[req[r].campaign] =
          budget_used[req[r].campaign] + EventOf(r).earnings

\* C23: the debit of a track request raises the campaign's budget_used by
\* exactly the earnings recorded on the TrackingEvent the request created.
\* Stated for earnings of whole cents, which the budget column stores
\* without rounding.
C23_DebitIsEarnings == [][C23_Step]_vars

(***************************************************************************)
(* Properties of the geo lookup (specification SpecGeo).                   *)
(***************************************************************************)

\* the providers that answer in this call, by position in API_URLS
Answering == { j \in DOMAIN API_URLS : probe.behaviours[j].ok }

\* C24: the providers are asked in the order of API_URLS, each one only
\* after all the earlier ones failed; the call returns the answer of the
\* first provider that answers, and when every provider failed it raises
\* the exception of the last one.
C24_ProviderFallback ==
  /\ \A n \in DOMAIN probe.asked :
        /\ probe.asked[n] = n
        /\ \A j \in 1..(n - 1) : ~probe.behaviours[j].ok
  /\ (probe.pc = "done" /\ probe.asked # <<>>) =>
        IF Answering # {}
        THEN LET first == CHOOSE j \in Answering : \A k \in Answering : j <= k
             IN  /\ Len(probe.asked) = first
                 /\ probe.result.ok
                 /\ probe.result.country = CountryOf(probe.behaviours[first].data)
        ELSE /\ Len(probe.asked) = Len(API_URLS)
             /\ ~probe.result.ok
             /\ probe.result.error =
                  [type |-> probe.behaviours[Len(API_URLS)].error,
                   url |-> API_URLS[Len(API_URLS)]]

\* the first provider failed and the call returned the second one's answer
C24_Witness ==
  /\ probe.op = "get_ip_info" /\ probe.pc = "done"
  /\ probe.asked = <<1, 2>>
  /\ ~probe.behaviours[1].ok
  /\ probe.result.ok /\ probe.result.country = "ZZ"

RECURSIVE SumOfEvents(_)
\* the sum of the earnings of a set of TrackingEvent rows
SumOfEvents(evs) ==
  IF evs = {} THEN 0
  ELSE LET e == CHOOSE x \in evs : TRUE
       IN  e.earnings + SumOfEvents(evs \ {e})

\* C25: in every reachable state, a request being at any point of its
\* handler, budget_used of each campaign is at most its initial value plus
\* the earnings of the persisted TrackingEvents of the campaign.
C25_LedgerNotAhead ==
  \A c \in DOMAIN Campaigns :
     budget_used[c] <= InitialUsed[c] + SumOfEvents(EventsOfCampaign(c))

(***************************************************************************)
(* Properties of the transactional session (specification SpecTx).         *)
(***************************************************************************)

\* C26: a use of get_transactional_session with commit_on_exit true whose
\* body adds rows and calls commit() without raising ends without an
\* exception, with exactly one real commit, made at the exit, that commits
\* everything the body added; with commit_on_exit false it ends without
\* an exception and with nothing committed.
C26_CommitOnceAtExit ==
  (probe.mode = "context" /\ probe.pc = "done") =>
     /\ probe.error = ""
     /\ probe.session.pending = 0 \/ ~probe.commit_on_exit
     /\ probe.session.real_commits = (IF probe.commit_on_exit THEN 1 ELSE 0)

(***************************************************************************)
(* Properties of the duplicate check (specification Spec).                 *)
(***************************************************************************)

\* request r runs its duplicate check in this step
ChecksDuplicate(r) == req[r].pc = "dup" /\ req'[r].pc # "dup"

C27_Step ==
  \A r \in Reqs :
    ChecksDuplicate(r) =>
      (req'[r].err = "RateLimited" <=>
         \E e \in events :
            /\ e.campaign_id = req[r].campaign
            /\ e.viewer_ip = SessionOf(r).viewer_ip
            /\ e.event_type = req[r].etype
            /\ e.last_view_timestamp >= now - RATE_LIMIT_MINUTES)

\* C27: the duplicate check of a request blocks it exactly when a persisted
\* event has its campaign, its viewer ip and its event type and a timestamp
\* at or after now minus the cooldown; events of another campaign, ip or
\* type, and older events, do not block.
C27_DuplicateExactly == [][C27_Step]_vars

\* a viewer has two events on one campaign at the same time, of two types
C27_Witness ==
  \E e1 \in events, e2 \in events :
     /\ e1.campaign_id = e2.campaign_id /\ e1.viewer_ip = e2.viewer_ip
     /\ e1.event_type # e2.event_type
     /\ e1.last_view_timestamp = e2.last_view_timestamp

(***************************************************************************)
(* Defaults of pricing (specification SpecPricing).                        *)
(***************************************************************************)

\* the country code, upper-cased, is in the list of some region
ListedCountry(country_code) ==
  \E g \in DOMAIN PricingRegions : Upper(country_code) \in PricingRegions[g].countries

\* the region that prices the country code
RegionFor(country_code) ==
  IF ListedCountry(country_code)
  THEN CHOOSE g \in DOMAIN PricingRegions : Upper(country_code) \in PricingRegions[g].countries
  ELSE "other"

C28_Step ==
  (probe'.n = probe.n + 1) =>
     LET r == probe'.result
         region == PricingRegions[RegionFor(probe.country_code)]
     IN  /\ r.ok <=> probe.interaction_type \in DOMAIN region.rates
         /\ (r.ok /\ ~ListedCountry(probe.country_code)) =>
               /\ r.base_rate = PricingRegions["other"].rates[probe.interaction_type]
               /\ r.currency = PricingRegions["other"].currency
         /\ (r.ok /\ Lower(probe.device_type) \notin DOMAIN RateMultipliers) =>
               r.device_multiplier = MultiplierScale

\* C28: calculate_revenue returns a result for every country code and
\* device type unless the region has no rate for the interaction type; a
\* country listed in no region gets the rate and currency of region
\* "other", a device type without a multiplier gets 1.0.
C28_PricingDefaults == [][C28_Step]_vars

\* a call for an unlisted country and an unlisted device type returned the
\* rate of region "other", unmultiplied
C28_Witness ==
  /\ probe.op = "calculate_revenue" /\ probe.n = 1
  /\ probe.country_code = "ZZ" /\ probe.device_type = "tv"
  /\ probe.result.ok
  /\ probe.result.final_rate = PricingRegions["other"].rates[probe.interaction_type]

(***************************************************************************)
(* Buckets against events (specification Spec).                            *)
(***************************************************************************)

\* the persisted events of a publisher in the month of t, of one type
EventsOfMonth(pub, t, etype) ==
  { e \in events : /\ e.publisher_id = pub
                   /\ MonthStart(e.last_view_timestamp) = MonthStart(t)
                   /\ e.event_type = etype }

\* the rows of a publisher for the month of t
BucketsOfMonth(pub, t) ==
  { b \in earnings : b.publisher_id = pub /\ MonthStart(b.month) = MonthStart(t) }

\* C29: once no request is in flight, the counters of each publisher's
\* bucket of the month are the numbers of persisted events of the
\* publisher, month and type, and gross_revenue is the sum of their
\* earnings.
C29_BucketMatchesEvents ==
  Quiescent =>
    \A pub \in Publishers :
       LET rows == BucketsOfMonth(pub, now)
           Of(etype) == EventsOfMonth(pub, now, etype)
       IN  /\ SumField(rows, "total_views") = Cardinality(Of("view"))
           /\ SumField(rows, "total_clicks") = Cardinality(Of("click"))
           /\ SumField(rows, "total_impressions") = Cardinality(Of("impression"))
           /\ SumField(rows, "gross_revenue") =
                SumOfEvents(Of("view") \cup Of("click") \cup Of("impression"))

(***************************************************************************)
(* Concurrent decisions on one withdrawal (specification SpecWithdrawal).  *)
(***************************************************************************)

\* call k is a process_withdrawal call on bucket id that returned success
Decided(k, id) ==
  /\ calls[k].op = "process" /\ calls[k].pc = "done"
  /\ calls[k].ok /\ calls[k].id = id

\* C30: of two process_withdrawal calls on the same earnings record, one
\* approving and one rejecting, at most one returns success, and the
\* record's status is the decision of the call that succeeded.
C30_OneDecision ==
  \A j \in Calls, k \in Calls, b \in earnings :
     (j # k /\ Decided(j, b.id) /\ calls[j].status # calls[k].status
        /\ calls[k].op = "process" /\ calls[k].pc = "done" /\ calls[k].id = b.id)
       => /\ ~calls[k].ok
          /\ b.withdrawal_status = calls[j].status

====
